---- MODULE Spec2Model ----
(***************************************************************************)
(* The GraphQL query resolvers of thefederation/schema.py (class Query),   *)
(* modelled over a small relational database of Node, Platform, Protocol   *)
(* and Stat rows.  A resolver is one atomic action: it reads the database  *)
(* and leaves its outcome in `call`.                                       *)
(*                                                                         *)
(* The models module (Node, Platform, Protocol, Stat and their managers)   *)
(* is not part of the sources at hand: Node.objects.active() is taken to   *)
(* select the nodes whose active flag is set, hosts and platform/protocol  *)
(* names are unique, every node has a platform, and a Stat row is a daily  *)
(* snapshot, one per date and subject.  The resolvers that only delegate   *)
(* to Stat managers (stats_counts_nodes, stats_global_today) are left out. *)
(***************************************************************************)
EXTENDS Integers, Sequences, FiniteSets, TLC

\* ---------------------------------------------------------------- bounds
\* the ingestion history (nodes registered, stat rows stored, days elapsed) is at most this long
MaxSteps == 4

\* ------------------------------------------------------- value universes
\* Python None / a NULL foreign key or string, and a NULL integer column.
None == "None"
NULL == -1

\* The Platform and Protocol tables ("diaspora" names a platform and a protocol).
PlatformNames == {"diaspora", "friendica"}
ProtocolNames == {"diaspora", "activitypub"}

VARIABLES nodes, stats, today, call
vars == <<nodes, stats, today, call>>

\* ------------------------------------------------------- python helpers
\* Truthiness of an optional string argument: `if kwargs.get('x')`.
Truthy(s) == s # None /\ s # ""

\* str.lower() on the strings the model passes as `name`.
Lower(s) ==
  CASE s = "Diaspora" -> "diaspora"
    [] s = "Friendica" -> "friendica"
    [] s = "ActivityPub" -> "activitypub"
    [] OTHER -> s

\* ------------------------------------------------------------ ORM helpers
NodeOf(h) == CHOOSE n \in nodes : n.host = h

RECURSIVE Perms(_)
Perms(S) ==
  IF S = {} THEN {<<>>}
  ELSE UNION {{<<x>> \o p : p \in Perms(S \ {x})} : x \in S}

\* mutant: a descending order that puts NULLs first
DescNullsFirst(a, b) == IF a = NULL THEN TRUE ELSE b # NULL /\ a >= b

\* F(key).desc(nulls_last=True): a before b is allowed
DescNullsLast(a, b) == IF b = NULL THEN TRUE ELSE a # NULL /\ a >= b

\* order_by(F('users').desc(nulls_last=True)): every order the database may return
\* (rows with equal keys come in any order)
OrderByUsers(S) ==
  {s \in Perms(S) : \A i \in 1..Len(s) : \A j \in i..Len(s) : DescNullsLast(s[i].users, s[j].users)}

\* '-active_nodes': a before b is allowed
Desc(a, b) == a >= b

\* order_by('-active_nodes')
OrderByActiveNodes(S) ==
  {s \in Perms(S) : \A i \in 1..Len(s) : \A j \in i..Len(s) : Desc(s[i].active_nodes, s[j].active_nodes)}

\* Node.objects.active()
Active(S) == {n \in S : n.active}

\* the `users` subquery of resolve_nodes: users_monthly of the node's stat row dated today
UsersOf(n) ==
  LET vals == {r.users_monthly : r \in {x \in stats : x.node = n.host /\ x.date = today}}
  IN IF vals = {} THEN NULL ELSE CHOOSE v \in vals : \A w \in vals : v >= w

\* mutant: the count subquery without active()
AllPlatformNodes(p) ==
  LET c == Cardinality({n \in nodes : n.platform = p})
  IN IF c = 0 THEN NULL ELSE c

\* the correlated count subquery of resolve_platforms: no row (NULL) when nothing matches
ActivePlatformNodes(p) ==
  LET c == Cardinality({n \in Active(nodes) : n.platform = p})
  IN IF c = 0 THEN NULL ELSE c

ActiveProtocolNodes(q) ==
  LET c == Cardinality({n \in Active(nodes) : q \in n.protocols})
  IN IF c = 0 THEN NULL ELSE c

\* active_nodes__gt=0: a NULL annotation never satisfies the comparison
Gt0(c) == c # NULL /\ c > 0

\* ---------------------------------------------------------------- state
Idle ==
  [op |-> "idle", host |-> None, itemType |-> None, platform |-> None,
   protocol |-> None, value |-> None, name |-> None, stat |-> None,
   status |-> "ok", rows |-> {}, out |-> <<>>]

Init ==
  /\ nodes = {}
  /\ stats = {}
  /\ today = 1
  /\ call = Idle

\* ------------------------------------------- external ingestion (database)
Steps == Cardinality(nodes) + Cardinality(stats) + (today - 1)

CreateNode(h, p, qs) ==
  /\ call.op = "idle"
  /\ Steps < MaxSteps
  /\ \A n \in nodes : n.host # h
  /\ nodes' = nodes \cup {[host |-> h, active |-> TRUE, platform |-> p, protocols |-> qs]}
  /\ UNCHANGED <<stats, today, call>>

SetActive(h, b) ==
  /\ call.op = "idle"
  /\ \E n \in nodes :
       /\ n.host = h
       /\ n.active # b
       /\ nodes' = (nodes \ {n}) \cup {[n EXCEPT !.active = b]}
  /\ UNCHANGED <<stats, today, call>>

Activate(h) == SetActive(h, TRUE)
Deactivate(h) == SetActive(h, FALSE)

\* a daily snapshot: one row per date and subject, dated the day it is taken
IngestStat(node, platform, protocol, m) ==
  /\ call.op = "idle"
  /\ Steps < MaxSteps
  /\ node # None => \E n \in nodes : n.host = node
  /\ \A r \in stats : ~(r.date = today /\ r.node = node /\ r.platform = platform /\ r.protocol = protocol)
  /\ stats' = stats \cup
       {[date |-> today, node |-> node, platform |-> platform, protocol |-> protocol,
         users_total |-> m.users_total, users_half_year |-> m.users_half_year,
         users_monthly |-> m.users_monthly, users_weekly |-> m.users_weekly,
         local_posts |-> m.local_posts, local_comments |-> m.local_comments]}
  /\ UNCHANGED <<nodes, today, call>>

NextDay ==
  /\ call.op = "idle"
  /\ Steps < MaxSteps
  /\ today' = today + 1
  /\ UNCHANGED <<nodes, stats, call>>

\* the response is delivered and the request forgotten
Respond ==
  /\ call.op # "idle"
  /\ call' = Idle
  /\ UNCHANGED <<nodes, stats, today>>

\* ------------------------------------------------------- resolve_nodes
\* mutant: the same filters without active()
NodesFilteredAnyActivity(host, platform, protocol) ==
  LET base == IF Truthy(platform) THEN {n \in nodes : n.platform = platform}
              ELSE IF Truthy(protocol) THEN {n \in nodes : protocol \in n.protocols}
              ELSE nodes
  IN IF Truthy(host) THEN {n \in base : n.host = host} ELSE base

NodesFiltered(host, platform, protocol) ==
  LET base == IF Truthy(platform) THEN {n \in Active(nodes) : n.platform = platform}
              ELSE IF Truthy(protocol) THEN {n \in Active(nodes) : protocol \in n.protocols}
              ELSE Active(nodes)
      byHost == IF Truthy(host) THEN {n \in base : n.host = host} ELSE base
  IN Active(byHost)

Annotated(S) ==
  {[host |-> n.host, active |-> n.active, platform |-> n.platform,
    protocols |-> n.protocols, users |-> UsersOf(n)] : n \in S}

resolve_nodes(host, platform, protocol) ==
  /\ call.op = "idle"
  /\ \E out \in OrderByUsers(Annotated(NodesFiltered(host, platform, protocol))) :
       call' = [Idle EXCEPT !.op = "nodes", !.host = host, !.platform = platform,
                            !.protocol = protocol, !.out = out]
  /\ UNCHANGED <<nodes, stats, today>>

\* --------------------------------------- resolve_platforms / resolve_protocols
PlatformEntries(name) ==
  LET qs == IF Truthy(name) THEN {p \in PlatformNames : p = Lower(name)} ELSE PlatformNames
      annotated == {[name |-> p, active_nodes |-> ActivePlatformNodes(p)] : p \in qs}
  IN {e \in annotated : Gt0(e.active_nodes)}

ProtocolEntries(name) ==
  LET qs == IF Truthy(name) THEN {q \in ProtocolNames : q = Lower(name)} ELSE ProtocolNames
      annotated == {[name |-> q, active_nodes |-> ActiveProtocolNodes(q)] : q \in qs}
  IN {e \in annotated : Gt0(e.active_nodes)}

resolve_platforms(name) ==
  /\ call.op = "idle"
  /\ \E out \in OrderByActiveNodes(PlatformEntries(name)) :
       call' = [Idle EXCEPT !.op = "platforms", !.name = name, !.out = out]
  /\ UNCHANGED <<nodes, stats, today>>

resolve_protocols(name) ==
  /\ call.op = "idle"
  /\ \E out \in OrderByActiveNodes(ProtocolEntries(name)) :
       call' = [Idle EXCEPT !.op = "protocols", !.name = name, !.out = out]
  /\ UNCHANGED <<nodes, stats, today>>

\* ------------------------------------------------- Stat queryset filters
\* Stat.objects.filter(node__platform__name=v): an inner join through the node to its
\* platform; v = None is an IS NULL test over left joins (every node has a named platform)
FilterNodePlatformName(S, v) ==
  IF v = None THEN {r \in S : r.node = None}
  ELSE {r \in S : r.node # None /\ NodeOf(r.node).platform = v}

\* Stat.objects.filter(node__protocols__name=v): a join through the node's protocols
FilterNodeProtocolsName(S, v) ==
  IF v = None THEN {r \in S : r.node = None \/ NodeOf(r.node).protocols = {}}
  ELSE {r \in S : r.node # None /\ v \in NodeOf(r.node).protocols}

\* filter(node__host=v)
FilterNodeHost(S, v) ==
  IF v = None THEN {r \in S : r.node = None}
  ELSE {r \in S : r.node # None /\ NodeOf(r.node).host = v}

\* mutant: no node__isnull filter
FilterNodeAny(S) == S

\* filter(node__isnull=False)
FilterNodeNotNull(S) == {r \in S : r.node # None}

ItemTypes == {"platform", "protocol", "node"}

\* ------------------------------------------------------------ aggregates
RECURSIVE SumRows(_, _)
SumRows(S, col) ==
  IF S = {} THEN 0
  ELSE LET r == CHOOSE x \in S : TRUE IN r[col] + SumRows(S \ {r}, col)

\* SQL SUM: NULLs are skipped, and the sum of no value is NULL
Sum(S, col) ==
  LET vals == {r \in S : r[col] # NULL}
  IN IF vals = {} THEN NULL ELSE SumRows(vals, col)

\* SQL AVG as the exact fraction sum/count over the non-NULL values
Avg(S, col) ==
  LET vals == {r \in S : r[col] # NULL}
  IN IF vals = {} THEN [num |-> NULL, den |-> NULL]
     ELSE [num |-> SumRows(vals, col), den |-> Cardinality(vals)]

\* Cast(Sum(users_monthly), Float) / Cast(Sum(users_total), Float) as a fraction;
\* NULL when an operand is NULL.  A zero divisor is left to DivisionByZero below.
Ratio(S) ==
  LET m == Sum(S, "users_monthly")
      t == Sum(S, "users_total")
  IN IF m = NULL \/ t = NULL \/ t = 0 THEN [num |-> NULL, den |-> NULL]
     ELSE [num |-> m, den |-> t]

DivisionByZero(S) == Sum(S, "users_monthly") # NULL /\ Sum(S, "users_total") = 0

RECURSIVE Ascending(_)
Ascending(D) ==
  IF D = {} THEN <<>>
  ELSE LET m == CHOOSE x \in D : \A y \in D : x <= y IN <<m>> \o Ascending(D \ {m})

\* values('date') ... order_by('date'): the dates of the queryset, each once, ascending
DatesOf(S) == Ascending({r.date : r \in S})

RowsOn(S, d) == {r \in S : r.date = d}

\* qs.values('date').annotate(count=Sum(stat)).values('date', 'count').order_by('date')
SumByDate(S, stat) ==
  LET ds == DatesOf(S)
  IN [i \in 1..Len(ds) |-> [date |-> ds[i], count |-> Sum(RowsOn(S, ds[i]), stat)]]

\* ... annotate(count=Cast(Sum('users_monthly')) / Cast(Sum('users_total'))) ...
RatioByDate(S) ==
  LET ds == DatesOf(S)
  IN [i \in 1..Len(ds) |-> [date |-> ds[i], count |-> Ratio(RowsOn(S, ds[i]))]]

\* ... annotate(count=Avg('users_total')) ...
AvgByDate(S) ==
  LET ds == DatesOf(S)
  IN [i \in 1..Len(ds) |-> [date |-> ds[i], count |-> Avg(RowsOn(S, ds[i]), "users_total")]]

\* ------------------------------------------------- _get_stat_date_counts
get_stat_date_counts_raises(value, item_type) ==
  Truthy(value) /\ Truthy(item_type) /\ item_type \notin ItemTypes

\* mutant: the platform scope joins through the node's protocols
get_stat_date_counts_qs_swapped(value, item_type) ==
  IF Truthy(value) /\ Truthy(item_type)
  THEN CASE item_type = "platform" -> FilterNodeProtocolsName(stats, value)
         [] item_type = "protocol" -> FilterNodeProtocolsName(stats, value)
         [] item_type = "node" -> FilterNodeHost(stats, value)
         [] OTHER -> {}
  ELSE FilterNodeNotNull(stats)

get_stat_date_counts_qs(value, item_type) ==
  IF Truthy(value) /\ Truthy(item_type)
  THEN CASE item_type = "platform" -> FilterNodePlatformName(stats, value)
         [] item_type = "protocol" -> FilterNodeProtocolsName(stats, value)
         [] item_type = "node" -> FilterNodeHost(stats, value)
         [] OTHER -> {}
  ELSE FilterNodeNotNull(stats)

get_stat_date_counts(op, stat, value, item_type) ==
  /\ call.op = "idle"
  /\ LET qs == get_stat_date_counts_qs(value, item_type)
     IN call' = IF get_stat_date_counts_raises(value, item_type)
                THEN [Idle EXCEPT !.op = op, !.stat = stat, !.value = value,
                                  !.itemType = item_type, !.status = "ValueError"]
                ELSE [Idle EXCEPT !.op = op, !.stat = stat, !.value = value,
                                  !.itemType = item_type, !.rows = qs,
                                  !.out = SumByDate(qs, stat)]
  /\ UNCHANGED <<nodes, stats, today>>

resolve_stats_users_total(itemType, value) ==
  get_stat_date_counts("stats_users_total", "users_total", value, itemType)
resolve_stats_users_half_year(itemType, value) ==
  get_stat_date_counts("stats_users_half_year", "users_half_year", value, itemType)
resolve_stats_users_monthly(itemType, value) ==
  get_stat_date_counts("stats_users_monthly", "users_monthly", value, itemType)
resolve_stats_users_weekly(itemType, value) ==
  get_stat_date_counts("stats_users_weekly", "users_weekly", value, itemType)
resolve_stats_local_posts(itemType, value) ==
  get_stat_date_counts("stats_local_posts", "local_posts", value, itemType)
resolve_stats_local_comments(itemType, value) ==
  get_stat_date_counts("stats_local_comments", "local_comments", value, itemType)

\* ----------------------------------------- resolve_stats_users_active_ratio
users_active_ratio_raises(value, itemType) ==
  Truthy(value) /\ Truthy(itemType) /\ itemType \notin ItemTypes

users_active_ratio_qs(value, itemType) ==
  IF Truthy(value) /\ Truthy(itemType)
  THEN CASE itemType = "platform" -> FilterNodePlatformName(stats, value)
         [] itemType = "protocol" -> FilterNodeProtocolsName(stats, value)
         [] itemType = "node" -> FilterNodeHost(stats, value)
         [] OTHER -> {}
  ELSE FilterNodeNotNull(stats)

\* A date whose summed users_total is 0 divides by zero: the database either fails the
\* query or yields NULL for that date, depending on the backend.
resolve_stats_users_active_ratio(itemType, value) ==
  /\ call.op = "idle"
  /\ LET qs == users_active_ratio_qs(value, itemType)
         base == [Idle EXCEPT !.op = "stats_users_active_ratio", !.value = value,
                              !.itemType = itemType]
     IN IF users_active_ratio_raises(value, itemType)
        THEN call' = [base EXCEPT !.status = "ValueError"]
        ELSE \/ call' = [base EXCEPT !.rows = qs, !.out = RatioByDate(qs)]
             \/ /\ \E d \in {r.date : r \in qs} : DivisionByZero(RowsOn(qs, d))
                /\ call' = [base EXCEPT !.status = "DataError"]
  /\ UNCHANGED <<nodes, stats, today>>

\* --------------------------------------------- resolve_stats_users_per_node
users_per_node_raises(value, itemType) ==
  Truthy(value) /\ Truthy(itemType) /\ itemType \notin ItemTypes

users_per_node_qs(value, itemType) ==
  IF Truthy(value) /\ Truthy(itemType)
  THEN CASE itemType = "platform" -> FilterNodePlatformName(stats, value)
         [] itemType = "protocol" -> FilterNodeProtocolsName(stats, value)
         [] itemType = "node" -> FilterNodeHost(stats, value)
         [] OTHER -> {}
  ELSE FilterNodeNotNull(stats)

resolve_stats_users_per_node(itemType, value) ==
  /\ call.op = "idle"
  /\ LET qs == users_per_node_qs(value, itemType)
         base == [Idle EXCEPT !.op = "stats_users_per_node", !.value = value,
                              !.itemType = itemType]
     IN call' = IF users_per_node_raises(value, itemType)
                THEN [base EXCEPT !.status = "ValueError"]
                ELSE [base EXCEPT !.rows = qs, !.out = AvgByDate(qs)]
  /\ UNCHANGED <<nodes, stats, today>>

\* ------------------------------------------------------ resolve_stats_nodes
stats_nodes_item_type(itemType, platform, protocol) ==
  IF Truthy(itemType) THEN itemType
  ELSE IF Truthy(platform) THEN "platform"
  ELSE IF Truthy(protocol) THEN "protocol"
  ELSE None

stats_nodes_value(itemType, platform, protocol, value) ==
  IF Truthy(itemType) THEN value
  ELSE IF Truthy(platform) THEN platform
  ELSE IF Truthy(protocol) THEN protocol
  ELSE None

\* mutant: the final filter without date=today
stats_nodes_qs_any_date(host, itemType, platform, protocol, value) ==
  LET item_type == stats_nodes_item_type(itemType, platform, protocol)
      v == stats_nodes_value(itemType, platform, protocol, value)
      scoped == IF item_type = "platform" THEN FilterNodePlatformName(stats, v)
                ELSE IF item_type = "protocol" THEN FilterNodeProtocolsName(stats, v)
                ELSE stats
      byHost == IF Truthy(host) THEN FilterNodeHost(scoped, host) ELSE scoped
  IN {r \in byHost : r.node # None /\ r.protocol = None /\ r.platform = None}

stats_nodes_qs(host, itemType, platform, protocol, value) ==
  LET item_type == stats_nodes_item_type(itemType, platform, protocol)
      v == stats_nodes_value(itemType, platform, protocol, value)
      scoped == IF item_type = "platform" THEN FilterNodePlatformName(stats, v)
                ELSE IF item_type = "protocol" THEN FilterNodeProtocolsName(stats, v)
                ELSE stats
      byHost == IF Truthy(host) THEN FilterNodeHost(scoped, host) ELSE scoped
  IN {r \in byHost : r.date = today /\ r.node # None /\ r.protocol = None /\ r.platform = None}

resolve_stats_nodes(host, itemType, platform, protocol, value) ==
  /\ call.op = "idle"
  /\ call' = [Idle EXCEPT !.op = "stats_nodes", !.host = host, !.itemType = itemType,
                          !.platform = platform, !.protocol = protocol, !.value = value,
                          !.out = stats_nodes_qs(host, itemType, platform, protocol, value)]
  /\ UNCHANGED <<nodes, stats, today>>

\* ------------------------- resolve_stats_platform_today / _protocol_today
\* QuerySet.first(): the matching row, or nothing (the empty set here).  The rows it
\* is used on are unique per date and subject, so at most one row matches.
First(S) == IF S = {} THEN {} ELSE {CHOOSE r \in S : TRUE}

\* mutant: no early return for a missing name
stats_platform_today_unguarded(name) ==
  First({r \in stats : r.node = None /\ r.protocol = None /\ r.platform = name /\ r.date = today})

stats_platform_today(name) ==
  IF ~Truthy(name) THEN {}
  ELSE First({r \in stats : r.node = None /\ r.protocol = None /\ r.platform = name /\ r.date = today})

stats_protocol_today(name) ==
  IF ~Truthy(name) THEN {}
  ELSE First({r \in stats : r.node = None /\ r.platform = None /\ r.protocol = name /\ r.date = today})

resolve_stats_platform_today(name) ==
  /\ call.op = "idle"
  /\ call' = [Idle EXCEPT !.op = "stats_platform_today", !.name = name,
                          !.out = stats_platform_today(name)]
  /\ UNCHANGED <<nodes, stats, today>>

resolve_stats_protocol_today(name) ==
  /\ call.op = "idle"
  /\ call' = [Idle EXCEPT !.op = "stats_protocol_today", !.name = name,
                          !.out = stats_protocol_today(name)]
  /\ UNCHANGED <<nodes, stats, today>>

\* ------------------------------------------------------------ input sets
Metrics(t, h, m, w, p, c) ==
  [users_total |-> t, users_half_year |-> h, users_monthly |-> m, users_weekly |-> w,
   local_posts |-> p, local_comments |-> c]

MetricInputs == {Metrics(10, 8, 5, 2, 3, 1), Metrics(60, 55, 50, 20, 7, 4), Metrics(0, NULL, 0, NULL, NULL, NULL)}
RollupMetrics == Metrics(70, 63, 55, 22, 10, 5)
StatProtocolSets == {{}, {"diaspora", "activitypub"}}
ProtocolSets == {{}, {"diaspora"}, {"diaspora", "activitypub"}}
CatalogHosts == {"a.example", "b.example", "c.example"}
StatHosts == {"a.example", "b.example"}
ItemTypeArgs == {None, "platform", "protocol", "node", "software"}
ValueArgs == {None, "", "diaspora", "a.example"}
ShortArgs == {None, "diaspora"}
TodayNameArgs == {None, "", "diaspora"}
HostArgs == {None, "a.example"}
PlatformArgs == {None, "", "friendica"}
ProtocolArgs == {None, "activitypub"}
NameArgs == {None, "", "Diaspora", "activitypub"}

\* ------------------------------------------- nodes, platforms, protocols
NextCatalog ==
  \/ \E h \in CatalogHosts, p \in PlatformNames, qs \in ProtocolSets : CreateNode(h, p, qs)
  \/ \E h \in CatalogHosts : Activate(h)
  \/ \E h \in CatalogHosts : Deactivate(h)
  \/ \E h \in CatalogHosts, m \in MetricInputs : IngestStat(h, None, None, m)
  \/ NextDay
  \/ \E h \in HostArgs, p \in PlatformArgs, q \in ProtocolArgs : resolve_nodes(h, p, q)
  \/ \E n \in NameArgs : resolve_platforms(n)
  \/ \E n \in NameArgs : resolve_protocols(n)
  \/ Respond

SpecCatalog == Init /\ [][NextCatalog]_vars

\* ------------------------------------------------ the per-day aggregates
\* per-node rows, and the platform, protocol and global rollups
IngestAny ==
  \/ \E h \in StatHosts, m \in MetricInputs : IngestStat(h, None, None, m)
  \/ IngestStat(None, "diaspora", None, RollupMetrics)
  \/ IngestStat(None, None, "diaspora", RollupMetrics)
  \/ IngestStat(None, None, None, RollupMetrics)

NextAggregates ==
  \/ \E h \in StatHosts, p \in PlatformNames, qs \in StatProtocolSets : CreateNode(h, p, qs)
  \/ IngestAny
  \/ NextDay
  \/ \E t \in ItemTypeArgs, v \in ValueArgs : resolve_stats_users_total(t, v)
  \/ \E t \in ItemTypeArgs, v \in ValueArgs : resolve_stats_users_half_year(t, v)
  \/ \E t \in ItemTypeArgs, v \in ValueArgs : resolve_stats_users_monthly(t, v)
  \/ \E t \in ItemTypeArgs, v \in ValueArgs : resolve_stats_users_weekly(t, v)
  \/ \E t \in ItemTypeArgs, v \in ValueArgs : resolve_stats_local_posts(t, v)
  \/ \E t \in ItemTypeArgs, v \in ValueArgs : resolve_stats_local_comments(t, v)
  \/ \E t \in ItemTypeArgs, v \in ValueArgs : resolve_stats_users_active_ratio(t, v)
  \/ \E t \in ItemTypeArgs, v \in ValueArgs : resolve_stats_users_per_node(t, v)
  \/ Respond

SpecAggregates == Init /\ [][NextAggregates]_vars

\* ------------------------------------------------------ today's stat rows
NextToday ==
  \/ \E h \in StatHosts, p \in PlatformNames, qs \in StatProtocolSets : CreateNode(h, p, qs)
  \/ IngestAny
  \/ NextDay
  \/ \E h \in HostArgs, t \in ItemTypeArgs, p \in ShortArgs, q \in ShortArgs, v \in ValueArgs :
       resolve_stats_nodes(h, t, p, q, v)
  \/ \E n \in TodayNameArgs : resolve_stats_platform_today(n)
  \/ \E n \in TodayNameArgs : resolve_stats_protocol_today(n)
  \/ Respond

SpecToday == Init /\ [][NextToday]_vars

\* ================================================================ claims
SumOps == {"stats_users_total", "stats_users_half_year", "stats_users_monthly",
           "stats_users_weekly", "stats_local_posts", "stats_local_comments"}
ScopedOps == SumOps \cup {"stats_users_per_node", "stats_users_active_ratio"}

\* the metric each per-day sum resolver is named after
ColumnOf(op) ==
  CASE op = "stats_users_total" -> "users_total"
    [] op = "stats_users_half_year" -> "users_half_year"
    [] op = "stats_users_monthly" -> "users_monthly"
    [] op = "stats_users_weekly" -> "users_weekly"
    [] op = "stats_local_posts" -> "local_posts"
    [] op = "stats_local_comments" -> "local_comments"

\* the stat row r belongs to a node that the scope (t, v) selects
InScope(r, t, v) ==
  /\ r.node # None
  /\ \E n \in nodes :
       /\ n.host = r.node
       /\ \/ t = "platform" /\ n.platform = v
          \/ t = "protocol" /\ v \in n.protocols
          \/ t = "node" /\ n.host = v

\* what the resolver `op` computes over the rows S of one date
ExpectedCount(op, S) ==
  IF op \in SumOps THEN Sum(S, ColumnOf(op))
  ELSE IF op = "stats_users_per_node" THEN Avg(S, "users_total")
  ELSE Ratio(S)

\* C1: every validating resolver called with a non-empty itemType outside
\* {"platform", "protocol", "node"} ends in a value error, whatever value is
\* (present, empty or absent).
C1_UnknownItemTypeRaises ==
  (call.op \in ScopedOps /\ Truthy(call.itemType) /\ call.itemType \notin ItemTypes)
    => call.status = "ValueError"

\* C2: a scoped aggregate resolver called with a valid itemType and a non-empty value
\* aggregates only stat rows of nodes the scope selects: every row of its queryset is in
\* scope, and every returned date/count pair is the aggregate of the in-scope rows of
\* that date (rows of other nodes and rows without a node contribute nothing).
C2_ScopedAggregatesOnlyMatchingRows ==
  (call.op \in ScopedOps /\ call.itemType \in ItemTypes /\ Truthy(call.value) /\ call.status = "ok")
    => /\ \A r \in call.rows : r \in stats /\ InScope(r, call.itemType, call.value)
       /\ \A i \in 1..Len(call.out) :
            LET inScope == {r \in stats : r.date = call.out[i].date
                                          /\ InScope(r, call.itemType, call.value)}
            IN inScope # {} /\ call.out[i].count = ExpectedCount(call.op, inScope)

\* C2 happens: a scoped call returned a pair while the database also held a row of a
\* node outside the scope on the same date
C2_Witness ==
  /\ call.op \in ScopedOps /\ call.itemType \in ItemTypes /\ Truthy(call.value)
  /\ call.status = "ok"
  /\ \E i \in 1..Len(call.out) : \E r \in stats :
       r.date = call.out[i].date /\ r.node # None /\ ~InScope(r, call.itemType, call.value)

\* C3: whatever the host, platform and protocol arguments, the nodes resolver returns
\* no node whose active flag is false.
C3_NodesNeverInactive ==
  call.op = "nodes"
    => \A i \in 1..Len(call.out) :
         /\ call.out[i].active
         /\ \E n \in nodes : n.host = call.out[i].host /\ n.active

\* C3 happens: nodes returned something while an inactive node was in the database
C3_Witness ==
  /\ call.op = "nodes" /\ Len(call.out) > 0
  /\ ~Truthy(call.host) /\ ~Truthy(call.platform) /\ ~Truthy(call.protocol)
  /\ \E n \in nodes : ~n.active

\* the number of active nodes attached to a platforms/protocols entry
ActiveCount(op, name) ==
  Cardinality({n \in nodes : n.active /\ IF op = "platforms" THEN n.platform = name
                                          ELSE name \in n.protocols})

\* C4: platforms and protocols return no entry with zero currently-active nodes
\* (entries without any node included), ordered by non-increasing active-node count.
C4_NoEntryWithoutActiveNodes ==
  call.op \in {"platforms", "protocols"}
    => /\ \A i \in 1..Len(call.out) :
            /\ ActiveCount(call.op, call.out[i].name) > 0
            /\ call.out[i].active_nodes = ActiveCount(call.op, call.out[i].name)
       /\ \A i \in 1..Len(call.out) : \A j \in i..Len(call.out) :
            ActiveCount(call.op, call.out[i].name) >= ActiveCount(call.op, call.out[j].name)

\* C4 happens: platforms left out a platform whose only nodes are inactive, and
\* returned another one
C4_Witness ==
  /\ call.op = "platforms" /\ ~Truthy(call.name)
  /\ Len(call.out) = 1
  /\ \E n \in nodes : ~n.active /\ n.platform # call.out[1].name

\* C5: without a name stats_platform_today and stats_protocol_today return an empty
\* result and no error; with a name they return at most one stat row, dated today,
\* scoped to the named platform (resp. protocol) and with every other scope field null.
C5_TodayRollupByName ==
  call.op \in {"stats_platform_today", "stats_protocol_today"}
    => /\ call.status = "ok"
       /\ ~Truthy(call.name) => call.out = {}
       /\ Cardinality(call.out) <= 1
       /\ \A r \in call.out :
            /\ r \in stats
            /\ r.date = today
            /\ r.node = None
            /\ IF call.op = "stats_platform_today"
               THEN r.platform = call.name /\ r.protocol = None
               ELSE r.protocol = call.name /\ r.platform = None

\* C5 happens: stats_platform_today was called without a name while the database held
\* platform, protocol or global rollup rows for today
C5_Witness ==
  /\ call.op = "stats_platform_today" /\ ~Truthy(call.name)
  /\ \E r \in stats : r.date = today /\ r.node = None /\ r.platform # None
  /\ \E r \in stats : r.date = today /\ r.node = None /\ r.platform = None

\* today's monthly-active-user count of the node with this host, NULL without a row
TodayUsers(host) ==
  IF \E r \in stats : r.node = host /\ r.date = today
  THEN (CHOOSE r \in stats : r.node = host /\ r.date = today).users_monthly
  ELSE NULL

\* C6: the sequence nodes returns is non-increasing in the users value (today's
\* monthly-active-user count), and every node without a value comes after every node
\* with one.
C6_NodesOrderedByUsers ==
  call.op = "nodes"
    => /\ \A i \in 1..Len(call.out) : call.out[i].users = TodayUsers(call.out[i].host)
       /\ \A i \in 1..Len(call.out) : \A j \in (i + 1)..Len(call.out) :
            /\ call.out[i].users = NULL => call.out[j].users = NULL
            /\ call.out[j].users # NULL => call.out[i].users >= call.out[j].users

\* C6 happens: two active nodes with today's counts 50 and 5 are returned as [50, 5]
C6_Witness ==
  /\ call.op = "nodes" /\ Len(call.out) = 2
  /\ call.out[1].users = 50 /\ call.out[2].users = 5

\* C7: stats_nodes applies the item-type precedence rule: a supplied itemType with its
\* value is the scope, for each of "platform", "protocol" and "node"; otherwise platform,
\* otherwise protocol, otherwise host; every returned row is in that scope.
C7_StatsNodesPrecedence ==
  call.op = "stats_nodes"
    => \A r \in call.out :
         IF Truthy(call.itemType)
         THEN (call.itemType \in ItemTypes /\ Truthy(call.value))
                => InScope(r, call.itemType, call.value)
         ELSE IF Truthy(call.platform) THEN InScope(r, "platform", call.platform)
         ELSE IF Truthy(call.protocol) THEN InScope(r, "protocol", call.protocol)
         ELSE IF Truthy(call.host) THEN InScope(r, "node", call.host)
         ELSE TRUE

\* C8: the filters of nodes combine: every returned node satisfies every filter that
\* was supplied (platform, protocol and host).
C8_NodesFiltersCombine ==
  call.op = "nodes"
    => \A i \in 1..Len(call.out) :
         /\ Truthy(call.platform) => call.out[i].platform = call.platform
         /\ Truthy(call.protocol) => call.protocol \in call.out[i].protocols
         /\ Truthy(call.host) => call.out[i].host = call.host

\* C9: a per-day sum resolver called with no itemType/value returns exactly one pair
\* per date that has a stat row with a node, in strictly ascending date order, and each
\* count is the sum of the resolver's metric over the rows of that date that have a node.
C9_UnscopedPerDaySums ==
  (call.op \in SumOps /\ ~Truthy(call.itemType) /\ ~Truthy(call.value))
    => LET perNode == {r \in stats : r.node # None}
       IN /\ call.status = "ok"
          /\ {call.out[i].date : i \in 1..Len(call.out)} = {r.date : r \in perNode}
          /\ \A i \in 1..Len(call.out) : \A j \in (i + 1)..Len(call.out) :
               call.out[i].date < call.out[j].date
          /\ \A i \in 1..Len(call.out) :
               LET vals == {r \in perNode : r.date = call.out[i].date
                                            /\ r[ColumnOf(call.op)] # NULL}
               IN call.out[i].count = IF vals = {} THEN NULL
                                       ELSE SumRows(vals, ColumnOf(call.op))

\* C9 happens: rows on two consecutive dates with users_total 10 each give two pairs
\* with count 10
C9_Witness ==
  /\ call.op = "stats_users_total" /\ call.itemType = None /\ call.value = None
  /\ Len(call.out) = 2
  /\ call.out[1].count = 10 /\ call.out[2].count = 10

\* C10: whatever its arguments (an unrecognized itemType included), every row
\* stats_nodes returns is dated today, has a node and has no platform or protocol scope.
C10_StatsNodesTodayPerNode ==
  call.op = "stats_nodes"
    => \A r \in call.out :
         /\ r \in stats
         /\ r.date = today
         /\ r.node # None
         /\ r.platform = None
         /\ r.protocol = None

\* C10 happens: stats_nodes with an unrecognized itemType returned today's row of a node
\* that also has a row of an earlier date
C10_Witness ==
  /\ call.op = "stats_nodes" /\ call.itemType = "software"
  /\ \E r \in call.out : \E o \in stats : o.node = r.node /\ o.date < today

====
